---- MODULE Spec2Model ----
(***************************************************************************)
(* A model of reana_server/status.py: the nine status providers of REANA,  *)
(* the datastore, cluster and shell they read, and the value or exception  *)
(* each call ends with.                                                    *)
(*                                                                         *)
(* Conventions.                                                            *)
(*  - A Python call ends either by returning a value or by raising; an     *)
(*    Outcome is [outcome |-> "return" | "raise", value |-> ...].          *)
(*  - A Python dict is a TLA+ function over its keys; a dict whose         *)
(*    iteration order is read (get_memory_usage) is a sequence of          *)
(*    <<key, value>> pairs in insertion order.                             *)
(*  - A multi-line text is a sequence of chunks in which every newline is  *)
(*    a chunk of its own ("\n"); the empty string is <<>>.  Dict keys and  *)
(*    single tokens are plain strings.                                     *)
(***************************************************************************)
EXTENDS Integers, Sequences, FiniteSets, TLC

VARIABLES
    workflows,            \* rows of the Workflow table
    jobs,                 \* rows of the Job table
    userResources,        \* rows of UserResource joined with Resource and User
    interactiveSessions,  \* rows of the InteractiveSession table (their status)
    sessionActivity,      \* number of rows of the SessionActivity table
    nodes,                \* cluster nodes, in the order list_node returns them
    metricsItems,         \* "items" of metrics.k8s.io/v1beta1/nodes
    pods,                 \* cluster pods, in the order the API returns them
    infraNs,              \* REANA_INFRASTRUCTURE_KUBERNETES_NAMESPACE
    runtimeNs,            \* REANA_RUNTIME_KUBERNETES_NAMESPACE
    shell,                \* what each OS utility does when run
    failing,              \* the datastore / API calls that raise at present
    now,                  \* the clock: datetime.now() as last read
    ret,                  \* the last call: its name and how it ended
    inflight,             \* a WorkflowsStatus.get_status() call between two of
                          \* its queries: the queries done and their results
    seen                  \* history: the workflow statuses the datastore held,
                          \* one after the other, while that call was running

env == <<workflows, jobs, userResources, interactiveSessions, sessionActivity,
         nodes, metricsItems, pods, infraNs, runtimeNs, shell, failing>>

vars == <<workflows, jobs, userResources, interactiveSessions, sessionActivity,
          nodes, metricsItems, pods, infraNs, runtimeNs, shell, failing, now, ret,
          inflight, seen>>

(***************************************************************************)
(* Bounds of the model.                                                    *)
(***************************************************************************)
MaxNodes == 2
MaxMetricItems == 2
MaxPods == 2
MaxJobs == 3
MaxWorkflows == 2
MaxClock == 1
MaxUpdates == 1
MaxUserResources == 6
MaxColumns == 4

(***************************************************************************)
(* Python values and control flow.                                         *)
(***************************************************************************)
None == "None"

Return(v) == [outcome |-> "return", value |-> v]

Raise(e) == [outcome |-> "raise", value |-> e]

Called(op, out) == [op |-> op, outcome |-> out.outcome, value |-> out.value]

NoCall == [op |-> "none", outcome |-> "none", value |-> None]

\* No get_status() call is between two of its queries.
Idle == [pc |-> 0, result |-> <<>>]

InitIdle == inflight = Idle /\ seen = <<>>

Returned(op) == ret.op = op /\ ret.outcome = "return"

Raised(op) == ret.op = op /\ ret.outcome = "raise"

\* The names bound at module level by the import statements.
ImportedNames ==
    {"logging", "subprocess", "datetime", "timedelta", "SessionActivity",
     "REANA_COMPONENT_PREFIX", "REANA_INFRASTRUCTURE_KUBERNETES_NAMESPACE",
     "REANA_RUNTIME_KUBERNETES_NAMESPACE", "SHARED_VOLUME_PATH",
     "kubernetes_memory_to_bytes", "current_k8s_corev1_api_client",
     "current_k8s_custom_objects_api_client", "Session", "InteractiveSession",
     "Job", "JobStatus", "Resource", "ResourceType", "ResourceUnit",
     "RunStatus", "User", "UserResource", "Workflow", "get_usage_percentage",
     "desc"}

\* The calls to the datastore and to the orchestration API that may raise.
ExternalCalls ==
    {"Session.query", "list_node", "list_cluster_custom_object",
     "list_namespaced_pod"}

\* What a failing call raises.
ExceptionOf(call) ==
    IF call = "Session.query" THEN "OperationalError" ELSE "ApiException"

\* The sequences over S of length at most n.
SeqsUpTo(S, n) == UNION {[1..k -> S] : k \in 0..n}

\* A table is a multiset of rows: the counting queries do not read the order
\* of the rows, so one order stands for every order.
Sorted(s, rank(_)) == \A i \in 1..(Len(s) - 1) : rank(s[i]) <= rank(s[i + 1])

NoDuplicates(s, key(_)) ==
    \A i, j \in 1..Len(s) : key(s[i]) = key(s[j]) => i = j

\* Number of "\n" chunks of a text: the lines of a text in which every line
\* is introduced by a newline.
LineCount(text) == Cardinality({i \in 1..Len(text) : text[i] = "\n"})

(***************************************************************************)
(* The defaults of the parts of the environment a specification does not   *)
(* vary.                                                                   *)
(***************************************************************************)
DefaultShell ==
    [uptime |-> [kind |-> "ok", stdout |-> <<"up 2 hours", "\n">>],
     du     |-> [kind |-> "ok", stdout |-> <<"4.0K", "\t", "/var/reana/users", "\n">>],
     df     |-> [kind |-> "ok",
                 stdout |-> <<"Filesystem", " ", "Size", " ", "Used", " ",
                              "Avail", " ", "Use%", " ", "Mounted", "\n",
                              "/dev/sda1", " ", "100G", " ", "40G", " ",
                              "60G", " ", "40%", " ", "/data", "\n">>]]

(***************************************************************************)
(* NodesStatus.                                                            *)
(***************************************************************************)
NodeNames == {"node1", "node2", "node3"}

\* A Kubernetes memory quantity such as "4Ki".
MemoryQuantities == {[value |-> 3, unit |-> "Ki"], [value |-> 8, unit |-> "Ki"]}

QuantityStr(q) == ToString(q.value) \o q.unit

\* reana_commons.job_utils.kubernetes_memory_to_bytes: the number of bytes a
\* quantity string stands for.
kubernetes_memory_to_bytes(memory) ==
    LET q == CHOOSE x \in MemoryQuantities : QuantityStr(x) = memory
    IN  IF q.unit = "Ki" THEN q.value * 1024 ELSE q.value * 1024 * 1024

\* Python's round() of n/d for d > 0: to the nearest integer, ties to even.
Round(n, d) ==
    LET q == n \div d
        r == n % d
    IN  IF 2 * r < d THEN q
        ELSE IF 2 * r > d THEN q + 1
        ELSE IF q % 2 = 0 THEN q ELSE q + 1

NodeObjects == [name : NodeNames, capacity : {"8Ki"}, unschedulable : BOOLEAN]

MetricObjects == [name : NodeNames, usage : {"3Ki"}]

NodeName(node) == node.name

\* dict: a sequence of <<key, value>> pairs in insertion order.
DictHas(d, k) == \E i \in 1..Len(d) : d[i][1] = k

DictGet(d, k) == d[CHOOSE i \in 1..Len(d) : d[i][1] = k][2]

DictSet(d, k, v) ==
    IF DictHas(d, k)
    THEN [i \in 1..Len(d) |-> IF d[i][1] = k THEN <<k, v>> ELSE d[i]]
    ELSE Append(d, <<k, v>>)

\* memory.get(field): None when the field is absent.
Get(memory, field) == IF field \in DOMAIN memory THEN memory[field] ELSE None

\* list_node(field_selector=...): the names of the selected nodes.
ListNode(unschedulableOnly) ==
    SelectSeq(nodes, LAMBDA node : ~unschedulableOnly \/ node.unschedulable)

get_nodes ==
    IF "list_node" \in failing THEN Raise(ExceptionOf("list_node"))
    ELSE LET items == ListNode(FALSE)
         IN  Return([i \in 1..Len(items) |-> items[i].name])

get_unschedulable_nodes ==
    IF "list_node" \in failing THEN Raise(ExceptionOf("list_node"))
    ELSE LET items == ListNode(TRUE)
         IN  Return([i \in 1..Len(items) |-> items[i].name])

\* Lines 378-381: one entry per listed node, holding its capacity.
RECURSIVE NodeCapacities(_, _)
NodeCapacities(result, items) ==
    IF items = <<>> THEN result
    ELSE NodeCapacities(
             DictSet(result, Head(items).name,
                     [capacity |-> Head(items).capacity]),
             Tail(items))

\* Lines 387-398: the loop over the metrics items.
RECURSIVE MetricsLoop(_, _)
MetricsLoop(result, items) ==
    IF items = <<>> THEN Return(result)
    ELSE LET node_name == Head(items).name
         IN  IF ~DictHas(result, node_name) THEN Raise("KeyError")
             ELSE LET node_usage == Head(items).usage
                      node_capacity == DictGet(result, node_name).capacity
                      node_usage_percentage ==
                          Round(kubernetes_memory_to_bytes(node_usage) * 100,
                                kubernetes_memory_to_bytes(node_capacity))
                      entry ==
                          [capacity |-> node_capacity,
                           usage |-> node_usage,
                           percentage |-> ToString(node_usage_percentage) \o "%"]
                  IN  MetricsLoop(DictSet(result, node_name, entry), Tail(items))

\* Lines 383-398: the body of the try statement.
MetricsTryBody(result) ==
    IF "list_cluster_custom_object" \in failing
    THEN Raise(ExceptionOf("list_cluster_custom_object"))
    ELSE MetricsLoop(result, metricsItems)

\* Line 399, "except ApiException as e": the clause's expression is evaluated
\* when the try body raises; a name the module never bound raises NameError.
ExceptApiException(exc) ==
    IF "ApiException" \notin ImportedNames THEN Raise("NameError")
    ELSE IF exc = "ApiException" THEN Return(<<>>)
    ELSE Raise(exc)

get_memory_usage ==
    IF "list_node" \in failing THEN Raise(ExceptionOf("list_node"))
    ELSE LET result == NodeCapacities(<<>>, ListNode(FALSE))
             body == MetricsTryBody(result)
         IN  IF body.outcome = "raise" THEN ExceptApiException(body.value)
             ELSE body

RECURSIVE FriendlyLines(_)
FriendlyLines(memory_usage) ==
    IF memory_usage = <<>> THEN <<>>
    ELSE LET node == Head(memory_usage)[1]
             memory == Head(memory_usage)[2]
         IN  <<"\n", "  " \o node \o ": " \o Get(memory, "usage") \o "/"
                     \o Get(memory, "capacity") \o " ("
                     \o Get(memory, "percentage") \o ")">>
             \o FriendlyLines(Tail(memory_usage))

get_friendly_memory_usage ==
    LET memory_usage == get_memory_usage
    IN  IF memory_usage.outcome = "raise" THEN memory_usage
        ELSE Return(FriendlyLines(memory_usage.value))

NodesStatus_get_status ==
    LET unschedulable_nodes == get_unschedulable_nodes
        memory_usage == get_friendly_memory_usage
    IN  IF unschedulable_nodes.outcome = "raise" THEN unschedulable_nodes
        ELSE IF memory_usage.outcome = "raise" THEN memory_usage
        ELSE Return([unschedulable_nodes |-> unschedulable_nodes.value,
                     memory_usage |-> memory_usage.value])

\* A call reads the clock and the environment, and changes neither.
Call(op, out) ==
    /\ ret' = Called(op, out)
    /\ UNCHANGED now
    /\ UNCHANGED env
    /\ UNCHANGED <<inflight, seen>>

NodesGetNodes == Call("NodesStatus.get_nodes", get_nodes)

NodesGetUnschedulableNodes ==
    Call("NodesStatus.get_unschedulable_nodes", get_unschedulable_nodes)

NodesGetMemoryUsage == Call("NodesStatus.get_memory_usage", get_memory_usage)

NodesGetFriendlyMemoryUsage ==
    Call("NodesStatus.get_friendly_memory_usage", get_friendly_memory_usage)

NodesGetStatus == Call("NodesStatus.get_status", NodesStatus_get_status)

(***************************************************************************)
(* PodsStatus.                                                             *)
(***************************************************************************)
Namespaces == {"reana", "default"}

REANA_COMPONENT_PREFIX == "reana"

PodNames == {"reana-run-job-1", "reana-run-batch-1", "reana-server"}

PodNameTails == {"", "-1", "-2"}

\* Pods in phases the provider asks for, and in the phase Succeeded, which it
\* asks for as "Suceeded".
PodObjects ==
    [name : PodNames, namespace : Namespaces,
     phase : {"Running", "Pending", "Succeeded"}]

PodIdentity(pod) == <<pod.namespace, pod.name>>

\* str.lower() on the strings the module lowercases.
Lower(str) ==
    CASE str = "Running" -> "running"
      [] str = "Pending" -> "pending"
      [] str = "Suceeded" -> "suceeded"
      [] str = "Failed" -> "failed"
      [] str = "Unknown" -> "unknown"
      [] str = "Kubernetes" -> "kubernetes"
      [] str = "HTCondor" -> "htcondor"
      [] str = "Slurm" -> "slurm"

\* str.startswith(prefix) on pod names.
StartsWith(str, prefix) == \E tail \in PodNameTails : str = prefix \o tail

\* sep.join(strs), as a text; sep is a text too.
RECURSIVE Join(_, _)
Join(sep, strs) ==
    IF strs = <<>> THEN <<>>
    ELSE IF Len(strs) = 1 THEN (IF strs[1] = "" THEN <<>> ELSE <<strs[1]>>)
    ELSE (IF strs[1] = "" THEN <<>> ELSE <<strs[1]>>) \o sep \o Join(sep, Tail(strs))

\* REANAStatus.__init__: self.namespaces, a set.
namespaces == {infraNs, runtimeNs}

\* PodsStatus.__init__: self.statuses.
PodsStatus_statuses == <<"Running", "Pending", "Suceeded", "Failed", "Unknown">>

\* list_namespaced_pod(namespace, field_selector="status.phase=<status>").
ListNamespacedPod(namespace, status) ==
    SelectSeq(pods, LAMBDA pod : pod.namespace = namespace /\ pod.phase = status)

get_pods_by_status(status, namespace) ==
    IF "list_namespaced_pod" \in failing
    THEN Raise(ExceptionOf("list_namespaced_pod"))
    ELSE LET items == ListNamespacedPod(namespace, status)
         IN  Return([i \in 1..Len(items) |-> items[i].name])

get_friendly_pods_by_status(status, namespace) ==
    LET pod_names == get_pods_by_status(status, namespace)
    IN  IF pod_names.outcome = "raise" THEN pod_names
        ELSE Return(Join(<<"\n", "  ">>, <<"">> \o pod_names.value))

\* The key without lowercasing the phase.
PodsKeyAsWritten(ns, status) == ns \o "_" \o status \o "_pods"

\* f"{ns}_{status.lower()}_pods"
PodsKey(ns, status) == ns \o "_" \o Lower(status) \o "_pods"

\* The dict comprehension of get_status, over the (ns, status) pairs in
\* iteration order; a later pair with the same key replaces the earlier one.
RECURSIVE PodsComprehension(_, _)
PodsComprehension(result, pairs) ==
    IF pairs = <<>> THEN Return(result)
    ELSE LET ns == Head(pairs)[1]
             status == Head(pairs)[2]
             value == get_friendly_pods_by_status(status, ns)
         IN  IF value.outcome = "raise" THEN value
             ELSE PodsComprehension(
                      (PodsKey(ns, status) :> value.value) @@ result, Tail(pairs))

\* The orders in which a set may be iterated.
Orderings(S) ==
    {order \in [1..Cardinality(S) -> S] : \A x \in S : \E i \in DOMAIN order : order[i] = x}

RECURSIVE Pairs(_, _)
Pairs(nsOrder, statuses) ==
    IF nsOrder = <<>> THEN <<>>
    ELSE [i \in 1..Len(statuses) |-> <<Head(nsOrder), statuses[i]>>]
         \o Pairs(Tail(nsOrder), statuses)

PodsStatus_get_status(nsOrder) ==
    PodsComprehension(<<>>, Pairs(nsOrder, PodsStatus_statuses))

PodsGetStatus ==
    \E nsOrder \in Orderings(namespaces) :
        Call("PodsStatus.get_status", PodsStatus_get_status(nsOrder))

(***************************************************************************)
(* JobsStatus.                                                             *)
(***************************************************************************)
\* JobsStatus.__init__: self.compute_backends and self.statuses (the names of
\* the JobStatus members).
compute_backends == <<"Kubernetes", "HTCondor", "Slurm">>

JobsStatus_statuses == <<"running", "finished", "failed", "queued">>

JobRows ==
    [status : {"created", "running", "finished", "failed", "queued"},
     compute_backend : {"Kubernetes", "HTCondor", "Slurm"}]
    \cup {[status |-> "running", compute_backend |-> "kubernetes"]}

\* Query.count()
Count(rows, keep(_)) == Cardinality({i \in 1..Len(rows) : keep(rows[i])})

\* The count by status alone, whatever the backend.
get_jobs_by_status(status, compute_backend) ==
    IF "Session.query" \in failing THEN Raise(ExceptionOf("Session.query"))
    ELSE Return(Count(jobs, LAMBDA job : job.status = status))

\* compute_backend is None or a backend name; "if compute_backend" holds
\* for a name that is not empty.
get_jobs_by_status_and_compute_backend(status, compute_backend) ==
    IF "Session.query" \in failing THEN Raise(ExceptionOf("Session.query"))
    ELSE IF compute_backend # None /\ compute_backend # ""
    THEN Return(Count(jobs, LAMBDA job : job.status = status
                                  /\ job.compute_backend = compute_backend))
    ELSE Return(Count(jobs, LAMBDA job : job.status = status))

get_k8s_jobs_by_status(status) ==
    IF "list_namespaced_pod" \in failing
    THEN Raise(ExceptionOf("list_namespaced_pod"))
    ELSE LET items == ListNamespacedPod(runtimeNs, status)
             job_pods ==
                 SelectSeq(items,
                     LAMBDA pod : StartsWith(pod.name,
                                      REANA_COMPONENT_PREFIX \o "-run-job"))
         IN  Return([i \in 1..Len(job_pods) |-> job_pods[i].name])

\* The inner dict comprehension: {status.name: count for status in statuses}.
RECURSIVE BackendCounts(_, _, _)
BackendCounts(result, compute_backend, statuses) ==
    IF statuses = <<>> THEN Return(result)
    ELSE LET number ==
                 get_jobs_by_status_and_compute_backend(Head(statuses), compute_backend)
         IN  IF number.outcome = "raise" THEN number
             ELSE BackendCounts((Head(statuses) :> number.value) @@ result,
                                compute_backend, Tail(statuses))

\* The outer dict comprehension: {backend.lower(): {...} for backend in backends}.
RECURSIVE JobStatuses(_, _)
JobStatuses(result, backends) ==
    IF backends = <<>> THEN Return(result)
    ELSE LET counts == BackendCounts(<<>>, Head(backends), JobsStatus_statuses)
         IN  IF counts.outcome = "raise" THEN counts
             ELSE JobStatuses((Lower(Head(backends)) :> counts.value) @@ result,
                              Tail(backends))

JobsStatus_get_status ==
    LET job_statuses == JobStatuses(<<>>, compute_backends)
        running == get_k8s_jobs_by_status("Running")
        pending == get_k8s_jobs_by_status("Pending")
    IN  IF job_statuses.outcome = "raise" THEN job_statuses
        ELSE IF running.outcome = "raise" THEN running
        ELSE IF pending.outcome = "raise" THEN pending
        ELSE Return(("kubernetes_api" :> [running |-> Len(running.value),
                                          pending |-> Len(pending.value)])
                    @@ job_statuses.value)

JobsGetStatus == Call("JobsStatus.get_status", JobsStatus_get_status)

(***************************************************************************)
(* InteractiveSessionsStatus, UsersStatus, SystemStatus.                   *)
(***************************************************************************)
get_active ==
    IF "Session.query" \in failing THEN Raise(ExceptionOf("Session.query"))
    ELSE LET non_active_statuses == {"stopped", "deleted", "failed"}
         IN  Return(Count(interactiveSessions,
                          LAMBDA status : status \notin non_active_statuses))

InteractiveSessionsStatus_get_status ==
    LET active == get_active
    IN  IF active.outcome = "raise" THEN active
        ELSE Return([active |-> active.value])

InteractiveSessionsGetStatus ==
    Call("InteractiveSessionsStatus.get_status", InteractiveSessionsStatus_get_status)

active_web_users ==
    IF "Session.query" \in failing THEN Raise(ExceptionOf("Session.query"))
    ELSE Return(sessionActivity)

UsersStatus_get_status ==
    LET users == active_web_users
    IN  IF users.outcome = "raise" THEN users
        ELSE Return([active_web_users |-> users.value])

UsersGetStatus == Call("UsersStatus.get_status", UsersStatus_get_status)

\* str.rstrip("\r\n") of a text.
RECURSIVE RStrip(_)
RStrip(text) ==
    IF text # <<>> /\ text[Len(text)] \in {"\r", "\n"}
    THEN RStrip(SubSeq(text, 1, Len(text) - 1))
    ELSE text

\* The command run without checking its exit status.
execute_cmd_unchecked(cmd) ==
    LET run == shell[cmd[1]]
    IN  IF run.kind = "not_found" THEN Raise("FileNotFoundError")
        ELSE Return(RStrip(run.stdout))

\* subprocess.check_output(cmd).decode().rstrip("\r\n"); cmd[1] names the
\* utility.
execute_cmd(cmd) ==
    LET run == shell[cmd[1]]
    IN  IF run.kind = "not_found" THEN Raise("FileNotFoundError")
        ELSE IF run.kind = "nonzero" THEN Raise("CalledProcessError")
        ELSE Return(RStrip(run.stdout))

uptime == execute_cmd(<<"uptime", "-p">>)

SystemStatus_get_status ==
    LET up == uptime
    IN  IF up.outcome = "raise" THEN up
        ELSE Return([uptime |-> up.value])

SystemGetStatus == Call("SystemStatus.get_status", SystemStatus_get_status)

(***************************************************************************)
(* StorageStatus.                                                          *)
(***************************************************************************)
SHARED_VOLUME_PATH == "/var/reana"

Whitespace == {" ", "\t", "\n", "\r"}

\* str.splitlines() of a text: the lines between newlines; a last line that
\* is empty is not a line.
RECURSIVE SplitLinesFrom(_, _)
SplitLinesFrom(line, text) ==
    IF text = <<>> THEN (IF line = <<>> THEN <<>> ELSE <<line>>)
    ELSE IF Head(text) \in {"\n", "\r"}
    THEN <<line>> \o SplitLinesFrom(<<>>, Tail(text))
    ELSE SplitLinesFrom(Append(line, Head(text)), Tail(text))

SplitLines(text) == SplitLinesFrom(<<>>, text)

\* str.split() of a text: its maximal runs without whitespace, each run one
\* string.
RECURSIVE SplitFrom(_, _)
SplitFrom(word, text) ==
    IF text = <<>> THEN (IF word = "" THEN <<>> ELSE <<word>>)
    ELSE IF Head(text) \in Whitespace
    THEN (IF word = "" THEN <<>> ELSE <<word>>) \o SplitFrom("", Tail(text))
    ELSE SplitFrom(word \o Head(text), Tail(text))

Split(text) == SplitFrom("", text)

\* list.index(x): the first position of x (counted from 1 here), or 0 where
\* Python raises ValueError.
Index(list, x) ==
    IF \E i \in 1..Len(list) : list[i] = x
    THEN CHOOSE i \in 1..Len(list) :
             list[i] = x /\ \A j \in 1..(i - 1) : list[j] # x
    ELSE 0

\* user is {} (no user) or {a user}.
Users == {[workspace_path |-> "/var/reana/users/0000"]}

get_path(user) ==
    IF user # {} THEN (CHOOSE u \in user : TRUE).workspace_path
    ELSE SHARED_VOLUME_PATH \o "/users"

users_directory_size(user) ==
    LET output == execute_cmd(<<"du", "-h", "--max-depth=0", get_path(user)>>)
    IN  IF output.outcome = "raise" THEN output
        ELSE IF Split(output.value) = <<>> THEN Raise("IndexError")
        ELSE Return(Split(output.value)[1])

\* The columns read at the places they have in the usual header.
shared_volume_health_fixed_columns ==
    LET run == execute_cmd(<<"df", "-h", SHARED_VOLUME_PATH>>)
    IN  IF run.outcome = "raise" THEN run
        ELSE LET output == SplitLines(run.value)
             IN  IF Len(output) < 2 THEN Raise("IndexError")
                 ELSE LET values == Split(output[2])
                      IN  IF Len(values) < 5 THEN Raise("IndexError")
                          ELSE Return(values[3] \o "/" \o values[4] \o " ("
                                      \o values[5] \o ")")

shared_volume_health ==
    LET run == execute_cmd(<<"df", "-h", SHARED_VOLUME_PATH>>)
    IN  IF run.outcome = "raise" THEN run
        ELSE LET output == SplitLines(run.value)
             IN  IF Len(output) < 2 THEN Raise("IndexError")
                 ELSE LET headers == Split(output[1])
                          values == Split(output[2])
                          used_index == Index(headers, "Used")
                          available_index == Index(headers, "Avail")
                          use_percentage_index == Index(headers, "Use%")
                      IN  IF 0 \in {used_index, available_index, use_percentage_index}
                          THEN Raise("ValueError")
                          ELSE IF \E i \in {used_index, available_index,
                                            use_percentage_index} : i > Len(values)
                          THEN Raise("IndexError")
                          ELSE Return(values[used_index] \o "/"
                                      \o values[available_index] \o " ("
                                      \o values[use_percentage_index] \o ")")

StorageStatus_get_status(user) ==
    LET user_directory_size == users_directory_size(user)
        health == shared_volume_health
    IN  IF user_directory_size.outcome = "raise" THEN user_directory_size
        ELSE IF health.outcome = "raise" THEN health
        ELSE Return([user_directory_size |-> user_directory_size.value,
                     shared_volume_health |-> health.value])

StorageUsersDirectorySize ==
    \E user \in {{}} \cup {{u} : u \in Users} :
        Call("StorageStatus.users_directory_size", users_directory_size(user))

StorageSharedVolumeHealth ==
    Call("StorageStatus.shared_volume_health", shared_volume_health)

StorageGetStatus ==
    \E user \in {{}} \cup {{u} : u \in Users} :
        Call("StorageStatus.get_status", StorageStatus_get_status(user))

(***************************************************************************)
(* WorkflowsStatus.  Time is counted in minutes.                           *)
(***************************************************************************)
\* timedelta(hours=12) of stuck_in_running_workflows.
StuckRunningHours == 12

\* timedelta(minutes=20) of stuck_in_pending_workflows.
StuckPendingMinutes == 20

\* The first clock reading of the model: one day after time 0.
Midnight == 24 * 60

\* The readings datetime.now() may give.
Clock == Midnight..(Midnight + MaxClock)

\* A nullable timestamp column is {} (NULL) or {t}; a comparison with NULL
\* is not true.
AtOrBefore(column, threshold) == \E t \in column : t <= threshold

\* The count of all workflows, whatever the status asked for.
get_workflows_of_any_status(status) ==
    IF "Session.query" \in failing THEN Raise(ExceptionOf("Session.query"))
    ELSE Return(Len(workflows))

get_workflows_by_status(status) ==
    IF "Session.query" \in failing THEN Raise(ExceptionOf("Session.query"))
    ELSE Return(Count(workflows, LAMBDA workflow : workflow.status = status))

restarted_workflows ==
    IF "Session.query" \in failing THEN Raise(ExceptionOf("Session.query"))
    ELSE Return(Count(workflows, LAMBDA workflow : workflow.restart))

\* The count without the filter on the last update.
stuck_in_running_by_start_only(clock) ==
    LET inactivity_threshold == clock - StuckRunningHours * 60
    IN  IF "Session.query" \in failing THEN Raise(ExceptionOf("Session.query"))
        ELSE Return(Count(workflows,
                 LAMBDA workflow :
                     /\ workflow.status = "running"
                     /\ AtOrBefore(workflow.run_started_at, inactivity_threshold)))

\* clock: what datetime.now() returns to this call.
stuck_in_running_workflows(clock) ==
    LET inactivity_threshold == clock - StuckRunningHours * 60
    IN  IF "Session.query" \in failing THEN Raise(ExceptionOf("Session.query"))
        ELSE Return(Count(workflows,
                 LAMBDA workflow :
                     /\ workflow.status = "running"
                     /\ AtOrBefore(workflow.run_started_at, inactivity_threshold)
                     /\ AtOrBefore({workflow.updated}, inactivity_threshold)))

\* The count with a strict comparison.
stuck_in_pending_strictly_before(clock) ==
    LET inactivity_threshold == clock - StuckPendingMinutes
    IN  IF "Session.query" \in failing THEN Raise(ExceptionOf("Session.query"))
        ELSE Return(Count(workflows,
                 LAMBDA workflow :
                     /\ workflow.status = "pending"
                     /\ workflow.updated < inactivity_threshold))

stuck_in_pending_workflows(clock) ==
    LET inactivity_threshold == clock - StuckPendingMinutes
    IN  IF "Session.query" \in failing THEN Raise(ExceptionOf("Session.query"))
        ELSE Return(Count(workflows,
                 LAMBDA workflow :
                     /\ workflow.status = "pending"
                     /\ AtOrBefore({workflow.updated}, inactivity_threshold)))

git_workflows ==
    IF "Session.query" \in failing THEN Raise(ExceptionOf("Session.query"))
    ELSE Return(Count(workflows, LAMBDA workflow : workflow.git_repo # ""))

\* The queries of get_status in the order the dict display evaluates them;
\* clock1 and clock2 are the two readings of datetime.now().
WorkflowsQueries(clock1, clock2) ==
    <<<<"running", get_workflows_by_status("running")>>,
      <<"finished", get_workflows_by_status("finished")>>,
      <<"stuck in running", stuck_in_running_workflows(clock1)>>,
      <<"stuck in pending", stuck_in_pending_workflows(clock2)>>,
      <<"queued", get_workflows_by_status("queued")>>,
      <<"restarts", restarted_workflows>>,
      <<"git_source", git_workflows>>>>

\* A dict display: the first query that raises ends the call.
RECURSIVE DictDisplay(_, _)
DictDisplay(result, queries) ==
    IF queries = <<>> THEN Return(result)
    ELSE IF Head(queries)[2].outcome = "raise" THEN Head(queries)[2]
    ELSE DictDisplay((Head(queries)[1] :> Head(queries)[2].value) @@ result,
                     Tail(queries))

WorkflowsStatus_get_status(clock1, clock2) ==
    DictDisplay(<<>>, WorkflowsQueries(clock1, clock2))

\* A call that reads the clock; clock is its last reading.
CallAt(clock, op, out) ==
    /\ ret' = Called(op, out)
    /\ now' = clock
    /\ UNCHANGED env
    /\ UNCHANGED <<inflight, seen>>

WorkflowsStuckInRunning ==
    \E clock \in Clock :
        CallAt(clock, "WorkflowsStatus.stuck_in_running_workflows",
               stuck_in_running_workflows(clock))

WorkflowsStuckInPending ==
    \E clock \in Clock :
        CallAt(clock, "WorkflowsStatus.stuck_in_pending_workflows",
               stuck_in_pending_workflows(clock))

\* The call with every row it read marked as updated now.
WorkflowsGetStatusTouching ==
    \E clock1, clock2 \in Clock :
        /\ clock1 <= clock2
        /\ ret' = Called("WorkflowsStatus.get_status",
                         WorkflowsStatus_get_status(clock1, clock2))
        /\ now' = clock2
        /\ workflows' = [i \in 1..Len(workflows) |->
                            [workflows[i] EXCEPT !.updated = clock2]]
        /\ UNCHANGED <<jobs, userResources, interactiveSessions, sessionActivity,
                       nodes, metricsItems, pods, infraNs, runtimeNs, shell, failing,
                       inflight, seen>>

WorkflowsGetStatus ==
    \E clock1, clock2 \in Clock :
        /\ clock1 <= clock2
        /\ CallAt(clock2, "WorkflowsStatus.get_status",
                  WorkflowsStatus_get_status(clock1, clock2))

\* Workflow rows: every status the counters read or must ignore, start and
\* update times on both sides of the two thresholds at the first reading.
TimedWorkflowRows ==
    [status : {"pending", "running", "finished", "queued"},
     run_started_at : {{}, {Midnight - StuckRunningHours * 60},
                       {Midnight - StuckRunningHours * 60 + 1}},
     updated : {Midnight - StuckRunningHours * 60,
                Midnight - StuckRunningHours * 60 + 1,
                Midnight - StuckPendingMinutes,
                Midnight - StuckPendingMinutes + 1},
     restart : {FALSE},
     git_repo : {""}]

FlaggedWorkflowRows ==
    [status : {"finished"},
     run_started_at : {{Midnight - StuckPendingMinutes}},
     updated : {Midnight - StuckPendingMinutes + 1},
     restart : BOOLEAN,
     git_repo : {"", "https://github.com/reanahub/reana-demo-helloworld"}]

(***************************************************************************)
(* QuotaUsageStatus.                                                       *)
(***************************************************************************)
\* .limit(5) of both queries.
TopFive == 5

ResourceTypes == {"disk", "cpu"}

\* The unit of the resource of each type.
UnitOf(resource_type) == IF resource_type = "disk" THEN "bytes" ELSE "milliseconds"

\* The used and limit amounts of the rows: a zero limit with the highest raw
\* usage, usage ratios of 25, 75 and 100 percent whose order differs from
\* the order of the raw usage, and rows of the other type.
QuotaShapes ==
    {[type_ |-> "disk", quota_used |-> 9, quota_limit |-> 0],
     [type_ |-> "disk", quota_used |-> 3, quota_limit |-> 4],
     [type_ |-> "disk", quota_used |-> 2, quota_limit |-> 2],
     [type_ |-> "disk", quota_used |-> 1, quota_limit |-> 4],
     [type_ |-> "cpu", quota_used |-> 7, quota_limit |-> 1],
     [type_ |-> "cpu", quota_used |-> 8, quota_limit |-> 0]}

QuotaRank(shape) ==
    (IF shape.type_ = "disk" THEN 0 ELSE 100) + shape.quota_used * 10 + shape.quota_limit

\* The rows of the table: row i belongs to user i.
UserResourceRows(shapes) ==
    [i \in 1..Len(shapes) |->
        [email |-> "user" \o ToString(i) \o "@reana.io",
         type_ |-> shapes[i].type_,
         unit |-> UnitOf(shapes[i].type_),
         quota_used |-> shapes[i].quota_used,
         quota_limit |-> shapes[i].quota_limit]]

\* The order in which the database yields rows whose sort keys are equal is
\* not defined: it scans the table forward or backward.
ScanOrders == {"forward", "backward"}

Reverse(rows) == [i \in 1..Len(rows) |-> rows[Len(rows) + 1 - i]]

Scan(rows, scan) == IF scan = "forward" THEN rows ELSE Reverse(rows)

\* a.key > b.key, for the key quota_used * 100.0 / quota_limit (limits are
\* positive here) or the key quota_used.
KeyGreater(by, a, b) ==
    IF by = "percentage"
    THEN a.quota_used * 100 * b.quota_limit > b.quota_used * 100 * a.quota_limit
    ELSE a.quota_used > b.quota_used

RECURSIVE InsertDesc(_, _, _)
InsertDesc(by, row, sorted) ==
    IF sorted = <<>> THEN <<row>>
    ELSE IF KeyGreater(by, row, Head(sorted)) THEN <<row>> \o sorted
    ELSE <<Head(sorted)>> \o InsertDesc(by, row, Tail(sorted))

\* ORDER BY key DESC
RECURSIVE OrderByDesc(_, _)
OrderByDesc(by, rows) ==
    IF rows = <<>> THEN <<>>
    ELSE InsertDesc(by, rows[Len(rows)],
                    OrderByDesc(by, SubSeq(rows, 1, Len(rows) - 1)))

\* LIMIT n
Limit(rows, n) == SubSeq(rows, 1, IF Len(rows) < n THEN Len(rows) ELSE n)

\* ResourceUnit.human_readable_unit of reana_db: the amount with its unit.
human_readable_unit(unit, value) ==
    ToString(value) \o (IF unit = "bytes" THEN " Bytes" ELSE " ms")

\* reana_server.utils.get_usage_percentage: the usage as a percentage of the
\* limit.
get_usage_percentage(usage, limit) ==
    IF limit = 0 THEN "" ELSE ToString(Round(usage * 100, limit)) \o "%"

format_user_data(users) ==
    [i \in 1..Len(users) |->
        [email |-> users[i].email,
         used |-> human_readable_unit(users[i].unit, users[i].quota_used),
         limit |-> human_readable_unit(users[i].unit, users[i].quota_limit),
         percentage |-> get_usage_percentage(users[i].quota_used,
                                             users[i].quota_limit)]]

\* The filter on the resource type alone.
PercentageFilterAnyLimit(row, resource_type) == row.type_ = resource_type

\* The two filters of get_top_five_percentage.
PercentageFilter(row, resource_type) ==
    row.type_ = resource_type /\ row.quota_limit # 0

get_top_five_percentage(resource_type, scan) ==
    IF "Session.query" \in failing THEN Raise(ExceptionOf("Session.query"))
    ELSE LET users ==
                 Limit(OrderByDesc("percentage",
                           SelectSeq(Scan(userResources, scan),
                               LAMBDA row : PercentageFilter(row, resource_type))),
                       TopFive)
         IN  Return(format_user_data(users))

get_top_five(resource_type, scan) ==
    IF "Session.query" \in failing THEN Raise(ExceptionOf("Session.query"))
    ELSE LET users ==
                 Limit(OrderByDesc("used",
                           SelectSeq(Scan(userResources, scan),
                               LAMBDA row : row.type_ = resource_type)),
                       TopFive)
         IN  Return(format_user_data(users))

QuotaUsageStatus_get_status(scan) ==
    DictDisplay(<<>>,
        <<<<"top_five_disk", get_top_five("disk", scan)>>,
          <<"top_five_cpu", get_top_five("cpu", scan)>>,
          <<"top_five_disk_percentage", get_top_five_percentage("disk", scan)>>,
          <<"top_five_cpu_percentage", get_top_five_percentage("cpu", scan)>>>>)

TopFivePercentageOp(resource_type) ==
    "QuotaUsageStatus.get_top_five_percentage(" \o resource_type \o ")"

TopFiveOp(resource_type) ==
    "QuotaUsageStatus.get_top_five(" \o resource_type \o ")"

QuotaGetTopFivePercentage ==
    \E resource_type \in ResourceTypes, scan \in ScanOrders :
        Call(TopFivePercentageOp(resource_type),
             get_top_five_percentage(resource_type, scan))

QuotaGetTopFive ==
    \E resource_type \in ResourceTypes, scan \in ScanOrders :
        Call(TopFiveOp(resource_type), get_top_five(resource_type, scan))

QuotaGetStatus ==
    \E scan \in ScanOrders :
        Call("QuotaUsageStatus.get_status", QuotaUsageStatus_get_status(scan))

(***************************************************************************)
(* Initial states.  Each specification varies one part of the environment  *)
(* and leaves the rest at these defaults.                                  *)
(***************************************************************************)
InitDatastore ==
    /\ workflows = <<>>
    /\ jobs = <<>>
    /\ userResources = <<>>
    /\ interactiveSessions = <<>>
    /\ sessionActivity = 0

InitCluster ==
    /\ nodes = <<>>
    /\ metricsItems = <<>>
    /\ pods = <<>>

InitConfig ==
    /\ infraNs = "reana"
    /\ runtimeNs = "reana-runtime"

InitNodes ==
    /\ InitDatastore
    /\ InitConfig
    /\ nodes \in {s \in SeqsUpTo(NodeObjects, MaxNodes) : NoDuplicates(s, NodeName)}
    /\ metricsItems \in SeqsUpTo(MetricObjects, MaxMetricItems)
    /\ pods = <<>>
    /\ shell = DefaultShell
    /\ failing \in SUBSET {"list_node", "list_cluster_custom_object"}
    /\ now = 0
    /\ ret = NoCall
    /\ InitIdle

NextNodes ==
    \/ NodesGetNodes
    \/ NodesGetUnschedulableNodes
    \/ NodesGetMemoryUsage
    \/ NodesGetFriendlyMemoryUsage
    \/ NodesGetStatus

SpecNodes == InitNodes /\ [][NextNodes]_vars

InitPods ==
    /\ InitDatastore
    /\ nodes = <<>>
    /\ metricsItems = <<>>
    /\ infraNs \in Namespaces
    /\ runtimeNs \in Namespaces
    /\ pods \in {s \in SeqsUpTo(PodObjects, MaxPods) : NoDuplicates(s, PodIdentity)}
    /\ shell = DefaultShell
    /\ failing \in SUBSET {"list_namespaced_pod"}
    /\ now = 0
    /\ ret = NoCall
    /\ InitIdle

NextPods == PodsGetStatus

SpecPods == InitPods /\ [][NextPods]_vars

\* The pods of the runtime namespace while jobs are counted.
JobPodScenarios ==
    {<<>>,
     <<[name |-> "reana-run-job-1", namespace |-> "reana-runtime", phase |-> "Running"]>>,
     <<[name |-> "reana-run-job-1", namespace |-> "reana-runtime", phase |-> "Pending"],
       [name |-> "reana-run-batch-1", namespace |-> "reana-runtime", phase |-> "Running"]>>}

JobRank(row) ==
    LET status == CHOOSE i \in 1..5 :
                      <<"created", "running", "finished", "failed", "queued">>[i]
                          = row.status
        backend == CHOOSE i \in 1..4 :
                       <<"Kubernetes", "HTCondor", "Slurm", "kubernetes">>[i]
                           = row.compute_backend
    IN  status * 4 + backend

InitJobs ==
    /\ workflows = <<>>
    /\ jobs \in {s \in SeqsUpTo(JobRows, MaxJobs) : Sorted(s, JobRank)}
    /\ userResources = <<>>
    /\ interactiveSessions = <<>>
    /\ sessionActivity = 0
    /\ InitConfig
    /\ nodes = <<>>
    /\ metricsItems = <<>>
    /\ pods \in JobPodScenarios
    /\ shell = DefaultShell
    /\ failing \in {{}, {"Session.query"}, {"list_namespaced_pod"}}
    /\ now = 0
    /\ ret = NoCall
    /\ InitIdle

NextJobs == JobsGetStatus

SpecJobs == InitJobs /\ [][NextJobs]_vars

WorkflowRank(row) ==
    LET status == CHOOSE i \in 1..4 :
                      <<"pending", "running", "finished", "queued">>[i] = row.status
        started == IF row.run_started_at = {} THEN 0
                   ELSE CHOOSE t \in row.run_started_at : TRUE
        flags == (IF row.restart THEN 2 ELSE 0) + (IF row.git_repo = "" THEN 0 ELSE 1)
    IN  ((status * 4 + flags) * (2 * Midnight) + started) * (2 * Midnight) + row.updated

InitWorkflows ==
    /\ \/ workflows \in {s \in SeqsUpTo(TimedWorkflowRows, MaxWorkflows) :
                            Sorted(s, WorkflowRank)}
       \/ workflows \in {s \in SeqsUpTo(FlaggedWorkflowRows, MaxWorkflows) :
                            Sorted(s, WorkflowRank)}
    /\ jobs = <<>>
    /\ userResources = <<>>
    /\ interactiveSessions = <<>>
    /\ sessionActivity = 0
    /\ InitCluster
    /\ InitConfig
    /\ shell = DefaultShell
    /\ failing \in SUBSET {"Session.query"}
    /\ now = Midnight
    /\ ret = NoCall
    /\ InitIdle

NextWorkflows ==
    \/ WorkflowsStuckInRunning
    \/ WorkflowsStuckInPending
    \/ WorkflowsGetStatus

SpecWorkflows == InitWorkflows /\ [][NextWorkflows]_vars

(***************************************************************************)
(* WorkflowsStatus.get_status() query by query.  The dict display issues   *)
(* its seven queries one after the other, each a round trip of its own to  *)
(* the datastore, and nothing holds the table still between two of them:   *)
(* another process may commit a workflow status update after any query.    *)
(* Here now is the wall clock both processes read.                         *)
(***************************************************************************)
\* The statuses of the rows, row by row.
Statuses(rows) == [i \in 1..Len(rows) |-> rows[i].status]

\* The number of queries of the dict display.
QueryCount == Len(WorkflowsQueries(now, now))

\* All queries of the call have returned; the dict is built and not yet
\* returned.
Built == inflight.pc = QueryCount

\* The next query of the dict display.  A query that raises ends the call;
\* the count of one that returns is stored under its key.  While the call
\* is running no call has ended.
WorkflowsGetStatusQuery ==
    /\ inflight.pc < QueryCount
    /\ LET query == WorkflowsQueries(now, now)[inflight.pc + 1]
       IN  IF query[2].outcome = "raise"
           THEN /\ ret' = Called("WorkflowsStatus.get_status", query[2])
                /\ inflight' = Idle
                /\ seen' = <<>>
           ELSE /\ inflight' = [pc |-> inflight.pc + 1,
                                result |-> (query[1] :> query[2].value)
                                               @@ inflight.result]
                /\ seen' = IF inflight.pc = 0 THEN <<Statuses(workflows)>> ELSE seen
                /\ ret' = IF inflight.pc = 0 THEN NoCall ELSE ret
    /\ UNCHANGED now
    /\ UNCHANGED env

\* The call returns the dict it has built.
WorkflowsGetStatusReturn ==
    /\ Built
    /\ ret' = Called("WorkflowsStatus.get_status", Return(inflight.result))
    /\ inflight' = Idle
    /\ seen' = <<>>
    /\ UNCHANGED now
    /\ UNCHANGED env

\* The life cycle of a workflow run.
NextStatus(status) ==
    CASE status = "queued" -> "pending"
      [] status = "pending" -> "running"
      [] status = "running" -> "finished"

\* Another process moves a workflow to its next status between two queries
\* of the call.  The update stamps the row's last-update time, and its start
\* time when the run starts.
WorkflowStatusUpdate ==
    /\ inflight.pc \in 1..(QueryCount - 1)
    /\ Len(seen) <= MaxUpdates
    /\ \E i \in 1..Len(workflows) :
           /\ workflows[i].status # "finished"
           /\ LET status == NextStatus(workflows[i].status)
              IN  workflows' =
                      [workflows EXCEPT
                          ![i] = [@ EXCEPT
                                     !.status = status,
                                     !.updated = now,
                                     !.run_started_at =
                                         IF status = "running" THEN {now} ELSE @]]
    /\ seen' = Append(seen, Statuses(workflows'))
    /\ UNCHANGED <<jobs, userResources, interactiveSessions, sessionActivity,
                   nodes, metricsItems, pods, infraNs, runtimeNs, shell, failing>>
    /\ UNCHANGED <<now, ret, inflight>>

\* A minute passes.
ClockTick ==
    /\ now < Midnight + MaxClock
    /\ now' = now + 1
    /\ UNCHANGED env
    /\ UNCHANGED <<ret, inflight, seen>>

\* Queued and pending workflows that never started and were touched nineteen
\* minutes ago; running and finished workflows that started twelve hours ago
\* and were not touched since, or started a minute later and were touched
\* nineteen minutes ago.
SnapshotWorkflowRows ==
    {row \in TimedWorkflowRows :
        \/ /\ row.status \in {"queued", "pending"}
           /\ row.run_started_at = {}
           /\ row.updated = Midnight - StuckPendingMinutes + 1
        \/ /\ row.status \in {"running", "finished"}
           /\ \/ /\ row.run_started_at = {Midnight - StuckRunningHours * 60}
                 /\ row.updated = Midnight - StuckRunningHours * 60
              \/ /\ row.run_started_at = {Midnight - StuckRunningHours * 60 + 1}
                 /\ row.updated = Midnight - StuckPendingMinutes + 1}

InitSnapshot ==
    /\ workflows \in {s \in SeqsUpTo(SnapshotWorkflowRows, MaxWorkflows) :
                         Sorted(s, WorkflowRank)}
    /\ jobs = <<>>
    /\ userResources = <<>>
    /\ interactiveSessions = <<>>
    /\ sessionActivity = 0
    /\ InitCluster
    /\ InitConfig
    /\ shell = DefaultShell
    /\ failing \in SUBSET {"Session.query"}
    /\ now = Midnight
    /\ ret = NoCall
    /\ InitIdle

NextSnapshot ==
    \/ WorkflowsGetStatusQuery
    \/ WorkflowsGetStatusReturn
    \/ WorkflowStatusUpdate
    \/ ClockTick

SpecSnapshot == InitSnapshot /\ [][NextSnapshot]_vars

InitQuota ==
    /\ workflows = <<>>
    /\ jobs = <<>>
    /\ \E shapes \in {q \in SeqsUpTo(QuotaShapes, MaxUserResources) :
                          Sorted(q, QuotaRank)} :
           userResources = UserResourceRows(shapes)
    /\ interactiveSessions = <<>>
    /\ sessionActivity = 0
    /\ InitCluster
    /\ InitConfig
    /\ shell = DefaultShell
    /\ failing \in SUBSET {"Session.query"}
    /\ now = 0
    /\ ret = NoCall
    /\ InitIdle

NextQuota ==
    \/ QuotaGetTopFivePercentage
    \/ QuotaGetTopFive
    \/ QuotaGetStatus

SpecQuota == InitQuota /\ [][NextQuota]_vars

\* The output of df: a header row and a data row, columns separated by gap.
RECURSIVE Columns(_, _)
Columns(tokens, gap) ==
    IF tokens = <<>> THEN <<>>
    ELSE IF Len(tokens) = 1 THEN <<tokens[1]>>
    ELSE <<tokens[1]>> \o gap \o Columns(Tail(tokens), gap)

DfText(header, values, gap) ==
    Columns(header, gap) \o <<"\n">> \o Columns(values, gap) \o <<"\n">>

DfColumnNames == {"Filesystem", "Used", "Avail", "Use%"}

DfDataRow == <<"/dev/sda1", "100G", "40G", "60G", "40%", "/data">>

CommandKinds == {"ok", "not_found", "nonzero"}

InitStorage ==
    /\ InitDatastore
    /\ InitCluster
    /\ InitConfig
    /\ \/ \E header \in SeqsUpTo(DfColumnNames, MaxColumns),
             n \in 0..Len(DfDataRow),
             gap \in {<<" ">>, <<" ", " ">>} :
               shell = [DefaultShell EXCEPT
                          !.df.stdout = DfText(header, SubSeq(DfDataRow, 1, n), gap)]
       \/ \E du \in CommandKinds, df \in CommandKinds :
               shell = [DefaultShell EXCEPT !.du.kind = du, !.df.kind = df]
    /\ failing = {}
    /\ now = 0
    /\ ret = NoCall
    /\ InitIdle

NextStorage ==
    \/ StorageUsersDirectorySize
    \/ StorageSharedVolumeHealth
    \/ StorageGetStatus

SpecStorage == InitStorage /\ [][NextStorage]_vars

\* A small populated platform, for the runs of all nine providers.
PopulatedWorkflows ==
    <<[status |-> "running",
       run_started_at |-> {Midnight - StuckRunningHours * 60},
       updated |-> Midnight - StuckRunningHours * 60,
       restart |-> FALSE, git_repo |-> ""],
      [status |-> "pending", run_started_at |-> {},
       updated |-> Midnight - StuckPendingMinutes,
       restart |-> TRUE,
       git_repo |-> "https://github.com/reanahub/reana-demo-helloworld"]>>

PopulatedNodes ==
    <<[name |-> "node1", capacity |-> "8Ki", unschedulable |-> FALSE],
      [name |-> "node2", capacity |-> "8Ki", unschedulable |-> TRUE]>>

PopulatedPods ==
    <<[name |-> "reana-server", namespace |-> "reana", phase |-> "Running"],
      [name |-> "reana-run-job-1", namespace |-> "reana-runtime", phase |-> "Pending"]>>

InitAll ==
    /\ \/ /\ InitDatastore
          /\ InitCluster
       \/ /\ workflows = PopulatedWorkflows
          /\ jobs = <<[status |-> "running", compute_backend |-> "Kubernetes"]>>
          /\ userResources =
                 UserResourceRows(<<[type_ |-> "disk", quota_used |-> 3,
                                     quota_limit |-> 4]>>)
          /\ interactiveSessions = <<"created", "stopped">>
          /\ sessionActivity = 1
          /\ nodes = PopulatedNodes
          /\ metricsItems = <<[name |-> "node1", usage |-> "3Ki"],
                              [name |-> "node2", usage |-> "3Ki"]>>
          /\ pods = PopulatedPods
    /\ InitConfig
    /\ \E kinds \in [{"uptime", "du", "df"} -> CommandKinds] :
           shell = [DefaultShell EXCEPT !.uptime.kind = kinds["uptime"],
                                        !.du.kind = kinds["du"],
                                        !.df.kind = kinds["df"]]
    /\ failing \in SUBSET ExternalCalls
    /\ now = Midnight
    /\ ret = NoCall
    /\ InitIdle

\* One action for each entry of STATUS_OBJECT_TYPES.
NextAll ==
    \/ InteractiveSessionsGetStatus
    \/ WorkflowsGetStatus
    \/ UsersGetStatus
    \/ SystemGetStatus
    \/ StorageGetStatus
    \/ NodesGetStatus
    \/ PodsGetStatus
    \/ JobsGetStatus
    \/ QuotaGetStatus

SpecAll == InitAll /\ [][NextAll]_vars

(***************************************************************************)
(* Properties.                                                             *)
(***************************************************************************)

\* C1: if the metrics API call raises its API exception (and list_node does
\* not), get_memory_usage() returns an empty mapping, get_friendly_memory_usage()
\* returns an empty string, get_unschedulable_nodes() returns the unschedulable
\* nodes as usual, and get_status() returns a mapping with exactly the keys
\* 'unschedulable_nodes' and 'memory_usage'.
C1_MetricsFailureDegradesToEmpty ==
    ("list_cluster_custom_object" \in failing /\ "list_node" \notin failing) =>
        /\ ret.op = "NodesStatus.get_memory_usage" =>
               ret.outcome = "return" /\ ret.value = <<>>
        /\ ret.op = "NodesStatus.get_friendly_memory_usage" =>
               ret.outcome = "return" /\ ret.value = <<>>
        /\ ret.op = "NodesStatus.get_unschedulable_nodes" =>
               /\ ret.outcome = "return"
               /\ {ret.value[i] : i \in 1..Len(ret.value)}
                      = {nodes[i].name : i \in {j \in 1..Len(nodes) : nodes[j].unschedulable}}
        /\ ret.op = "NodesStatus.get_status" =>
               /\ ret.outcome = "return"
               /\ DOMAIN ret.value = {"unschedulable_nodes", "memory_usage"}

\* C2, as claimed: PodsStatus.get_status() returns exactly 10 keys, one
\* '<namespace>_<phase-lowercased>_pods' key for each of the two configured
\* namespaces and each of the five phases, whatever the two namespace names
\* are, and the value of a key is the empty string when no pod of that
\* namespace is in that phase.
PodsPhaseKeys ==
    {<<"Running", "_running_pods">>, <<"Pending", "_pending_pods">>,
     <<"Suceeded", "_suceeded_pods">>, <<"Failed", "_failed_pods">>,
     <<"Unknown", "_unknown_pods">>}

PodsExpectedKeys == {ns \o pk[2] : ns \in {infraNs, runtimeNs}, pk \in PodsPhaseKeys}

PodsEmptyWhereNoPod ==
    \A ns \in {infraNs, runtimeNs}, pk \in PodsPhaseKeys :
        (~\E i \in 1..Len(pods) : pods[i].namespace = ns /\ pods[i].phase = pk[1])
            => ret.value[ns \o pk[2]] = <<>>

C2_AlwaysTenKeys ==
    Returned("PodsStatus.get_status") =>
        /\ Cardinality(DOMAIN ret.value) = 10
        /\ DOMAIN ret.value = PodsExpectedKeys
        /\ PodsEmptyWhereNoPod

\* C2, amended: PodsStatus.get_status() returns exactly 5 keys for each
\* distinct namespace name among the two configured ones (10 keys when the
\* names differ, 5 when they are the same string), one
\* '<namespace>_<phase-lowercased>_pods' key per (namespace, phase) pair, and
\* the value of a key is the empty string when no pod of that namespace is
\* in that phase.
C2_FiveKeysPerDistinctNamespace ==
    Returned("PodsStatus.get_status") =>
        /\ Cardinality(DOMAIN ret.value) = 5 * Cardinality({infraNs, runtimeNs})
        /\ infraNs # runtimeNs => Cardinality(DOMAIN ret.value) = 10
        /\ infraNs = runtimeNs => Cardinality(DOMAIN ret.value) = 5
        /\ DOMAIN ret.value = PodsExpectedKeys
        /\ PodsEmptyWhereNoPod

\* Reached: one namespace name for both settings, a pod listed under one key
\* and another key left empty.
C2_Witness ==
    /\ Returned("PodsStatus.get_status")
    /\ infraNs = runtimeNs
    /\ \E k \in DOMAIN ret.value : ret.value[k] # <<>>
    /\ \E k \in DOMAIN ret.value : ret.value[k] = <<>>

\* C3: JobsStatus.get_status() returns exactly the 4 top-level keys
\* 'kubernetes', 'htcondor', 'slurm' and 'kubernetes_api'; each backend key
\* maps to exactly the 4 entries running, finished, failed and queued; and
\* each entry is the number of job rows with that status and that compute
\* backend (Kubernetes, HTCondor, Slurm).
JobsBackendKeys ==
    {<<"kubernetes", "Kubernetes">>, <<"htcondor", "HTCondor">>, <<"slurm", "Slurm">>}

C3_JobsStatusShape ==
    Returned("JobsStatus.get_status") =>
        /\ DOMAIN ret.value = {"kubernetes", "htcondor", "slurm", "kubernetes_api"}
        /\ Cardinality(DOMAIN ret.value) = 4
        /\ \A bk \in JobsBackendKeys :
               /\ DOMAIN ret.value[bk[1]] = {"running", "finished", "failed", "queued"}
               /\ \A status \in {"running", "finished", "failed", "queued"} :
                      ret.value[bk[1]][status]
                          = Cardinality({i \in 1..Len(jobs) :
                                            /\ jobs[i].status = status
                                            /\ jobs[i].compute_backend = bk[2]})

\* Reached: three job rows, two of them counted under one pair and one under
\* another backend.
C3_Witness ==
    /\ Returned("JobsStatus.get_status")
    /\ Len(jobs) = 3
    /\ ret.value["kubernetes"]["running"] = 2
    /\ ret.value["slurm"]["running"] = 1
    /\ ret.value["htcondor"]["running"] = 0

\* C4: stuck_in_running_workflows() returns the number of workflows whose
\* status is running, whose start time is at or before now - 12 h and whose
\* last update is at or before now - 12 h; no other workflow is counted.
C4_StuckInRunning ==
    Returned("WorkflowsStatus.stuck_in_running_workflows") =>
        ret.value = Cardinality({i \in 1..Len(workflows) :
                        /\ workflows[i].status = "running"
                        /\ workflows[i].run_started_at # {}
                        /\ \A t \in workflows[i].run_started_at : t <= now - 12 * 60
                        /\ workflows[i].updated <= now - 12 * 60})

\* Reached: one workflow counted, and next to it a running workflow started
\* long ago but updated recently, which is not counted.
C4_Witness ==
    /\ Returned("WorkflowsStatus.stuck_in_running_workflows")
    /\ ret.value = 1
    /\ \E i \in 1..Len(workflows) :
           /\ workflows[i].status = "running"
           /\ workflows[i].run_started_at = {now - 12 * 60}
           /\ workflows[i].updated > now - 12 * 60

\* C5: stuck_in_pending_workflows() returns the number of workflows whose
\* status is pending and whose last update is at or before now - 20 min,
\* whatever their start time; a workflow in another status is not counted.
C5_StuckInPending ==
    Returned("WorkflowsStatus.stuck_in_pending_workflows") =>
        ret.value = Cardinality({i \in 1..Len(workflows) :
                        /\ workflows[i].status = "pending"
                        /\ workflows[i].updated <= now - 20})

\* Reached: a pending workflow with a recent start time is counted, next to
\* a queued workflow that is as old and is not.
C5_Witness ==
    /\ Returned("WorkflowsStatus.stuck_in_pending_workflows")
    /\ ret.value = 1
    /\ \E i \in 1..Len(workflows) :
           /\ workflows[i].status = "pending"
           /\ workflows[i].updated = now - 20
           /\ \E t \in workflows[i].run_started_at : t > now - 12 * 60
    /\ \E i \in 1..Len(workflows) :
           /\ workflows[i].status = "queued"
           /\ workflows[i].updated <= now - 20
\* C6: for each resource type, get_top_five_percentage(type) returns at
\* most 5 rows (all the eligible rows when there are 5 or fewer), all of
\* that resource type, none with quota_limit = 0, in descending order of
\* quota_used * 100 / quota_limit, and every row of that type with a
\* non-zero limit that it omits has a ratio no greater than that of any row
\* it returns; get_top_five(type) filters on the type alone, so it returns
\* rows with quota_limit = 0 too, in descending order of quota_used.
RowOf(email) ==
    CHOOSE row \in {userResources[i] : i \in 1..Len(userResources)} : row.email = email

\* a's usage ratio is at most b's; both limits are positive.
RatioAtMost(a, b) == a.quota_used * b.quota_limit <= b.quota_used * a.quota_limit

Smaller(a, b) == IF a < b THEN a ELSE b

C6_TopFive ==
    \A type \in ResourceTypes :
        /\ Returned(TopFivePercentageOp(type)) =>
               LET top == [i \in 1..Len(ret.value) |-> RowOf(ret.value[i].email)]
                   eligible == {row \in {userResources[i] : i \in 1..Len(userResources)} :
                                   row.type_ = type /\ row.quota_limit # 0}
                   returned == {top[i] : i \in 1..Len(top)}
               IN  /\ Len(top) <= 5
                   /\ Len(top) = Smaller(5, Cardinality(eligible))
                   /\ Cardinality(returned) = Len(top)
                   /\ \A i \in 1..Len(top) :
                          top[i].type_ = type /\ top[i].quota_limit # 0
                   /\ \A i, j \in 1..Len(top) : i < j => RatioAtMost(top[j], top[i])
                   /\ \A row \in eligible \ returned :
                          \A i \in 1..Len(top) : RatioAtMost(row, top[i])
        /\ Returned(TopFiveOp(type)) =>
               LET top == [i \in 1..Len(ret.value) |-> RowOf(ret.value[i].email)]
                   ofType == {row \in {userResources[i] : i \in 1..Len(userResources)} :
                                 row.type_ = type}
                   returned == {top[i] : i \in 1..Len(top)}
               IN  /\ Len(top) = Smaller(5, Cardinality(ofType))
                   /\ Cardinality(returned) = Len(top)
                   /\ returned \subseteq ofType
                   /\ \A i, j \in 1..Len(top) :
                          i < j => top[j].quota_used <= top[i].quota_used
                   /\ \A row \in ofType \ returned :
                          \A i \in 1..Len(top) : row.quota_used <= top[i].quota_used

\* Reached: five rows returned by get_top_five_percentage, in an order that
\* is not the order of the raw usage, while the table holds a row of the
\* same type with a zero limit.
C6_Witness ==
    /\ Returned(TopFivePercentageOp("disk"))
    /\ Len(ret.value) = 5
    /\ RowOf(ret.value[1].email).quota_used < RowOf(ret.value[5].email).quota_used
    /\ \E i \in 1..Len(userResources) :
           userResources[i].type_ = "disk" /\ userResources[i].quota_limit = 0

\* C7: for a two-line df output whose header row holds the column names
\* Used, Avail and Use% and whose data row has a token at each of their
\* positions, shared_volume_health() returns '<used>/<avail> (<pct>)' built
\* from the data-row tokens at those positions; the header
\* 'Filesystem Size Used Avail Use% Mounted' with the data row
\* '/dev/sda1 100G 40G 60G 40% /data' gives '40G/60G (40%)'.
FirstNewline(text) ==
    CHOOSE i \in 1..Len(text) : text[i] = "\n" /\ \A j \in 1..(i - 1) : text[j] # "\n"

Tokens(chunks) == SelectSeq(chunks, LAMBDA chunk : chunk # " ")

DfHeaderRow == Tokens(SubSeq(shell.df.stdout, 1, FirstNewline(shell.df.stdout) - 1))

DfRest ==
    SubSeq(shell.df.stdout, FirstNewline(shell.df.stdout) + 1, Len(shell.df.stdout))

DfValueRow == Tokens(SubSeq(DfRest, 1, FirstNewline(DfRest) - 1))

PositionOf(name) ==
    CHOOSE i \in 1..Len(DfHeaderRow) :
        DfHeaderRow[i] = name /\ \A j \in 1..(i - 1) : DfHeaderRow[j] # name

C7_SharedVolumeHealth ==
    /\ ( /\ ret.op = "StorageStatus.shared_volume_health"
         /\ shell.df.kind = "ok"
         /\ \A name \in {"Used", "Avail", "Use%"} :
                /\ \E i \in 1..Len(DfHeaderRow) : DfHeaderRow[i] = name
                /\ PositionOf(name) <= Len(DfValueRow) )
       => /\ ret.outcome = "return"
          /\ ret.value = DfValueRow[PositionOf("Used")] \o "/"
                         \o DfValueRow[PositionOf("Avail")] \o " ("
                         \o DfValueRow[PositionOf("Use%")] \o ")"
    /\ ( /\ ret.op = "StorageStatus.shared_volume_health"
         /\ shell.df.kind = "ok"
         /\ DfHeaderRow = <<"Filesystem", "Size", "Used", "Avail", "Use%", "Mounted">>
         /\ DfValueRow = <<"/dev/sda1", "100G", "40G", "60G", "40%", "/data">> )
       => ret.outcome = "return" /\ ret.value = "40G/60G (40%)"

\* Reached: a header whose columns are in another order than usual, and the
\* value built from the tokens under them.
C7_Witness ==
    /\ Returned("StorageStatus.shared_volume_health")
    /\ DfHeaderRow = <<"Use%", "Avail", "Used">>
    /\ ret.value = "40G/100G (/dev/sda1)"

\* C8: when a command run through execute_cmd is not found or exits
\* non-zero, or a datastore or orchestration-API call other than the
\* memory-metrics call raises, the get_status() that depends on it raises
\* and returns no mapping.
ProviderDependencies ==
    {<<"InteractiveSessionsStatus.get_status", {"Session.query"}, {}>>,
     <<"WorkflowsStatus.get_status", {"Session.query"}, {}>>,
     <<"UsersStatus.get_status", {"Session.query"}, {}>>,
     <<"SystemStatus.get_status", {}, {"uptime"}>>,
     <<"StorageStatus.get_status", {}, {"du", "df"}>>,
     <<"NodesStatus.get_status", {"list_node"}, {}>>,
     <<"PodsStatus.get_status", {"list_namespaced_pod"}, {}>>,
     <<"JobsStatus.get_status", {"Session.query", "list_namespaced_pod"}, {}>>,
     <<"QuotaUsageStatus.get_status", {"Session.query"}, {}>>}

C8_FailFast ==
    \A dep \in ProviderDependencies :
        ( /\ ret.op = dep[1]
          /\ \/ dep[2] \cap failing # {}
             \/ \E cmd \in dep[3] : shell[cmd].kind # "ok" )
        => ret.outcome = "raise"

\* Reached: du succeeds, df exits non-zero, and StorageStatus.get_status()
\* raises.
C8_Witness ==
    /\ Raised("StorageStatus.get_status")
    /\ shell.du.kind = "ok"
    /\ shell.df.kind = "nonzero"
    /\ ret.value = "CalledProcessError"

\* C9: no get_status() call of the nine providers changes the datastore
\* records, the cluster objects, the configuration or the behaviour of the
\* shell utilities.
C9_ReadOnly == [][UNCHANGED env]_vars

\* Reached: a call has returned its mapping on a populated datastore.
C9_Witness ==
    /\ Returned("WorkflowsStatus.get_status")
    /\ workflows # <<>>
    /\ ret.value["running"] = 1

\* C10: when list_node and the metrics API call succeed,
\* get_friendly_memory_usage() returns a string with exactly one line per
\* listed node, whatever the metrics items are, and the string is empty only
\* when no node is listed.
C10_OneLinePerNode ==
    ( /\ ret.op = "NodesStatus.get_friendly_memory_usage"
      /\ "list_node" \notin failing
      /\ "list_cluster_custom_object" \notin failing )
    => /\ ret.outcome = "return"
       /\ LineCount(ret.value) = Len(nodes)
       /\ ret.value = <<>> => nodes = <<>>


(***************************************************************************)
(* The result of get_status() under concurrent status updates.             *)
(***************************************************************************)
\* The number of workflows of a status in one state of the datastore.
CountStatus(statuses, status) ==
    Cardinality({i \in 1..Len(statuses) : statuses[i] = status})

\* The three counts of the built dict are those of the state seen[k].
CountsOfOneState(k) ==
    \A status \in {"running", "finished", "queued"} :
        inflight.result[status] = CountStatus(seen[k], status)

\* C11 as stated: the dict a get_status() call has built is one consistent
\* snapshot whatever updates fell between its queries: 'stuck in running'
\* is at most 'running', and 'running', 'finished' and 'queued' are the
\* counts of one single state the datastore held during the call (in one
\* state a workflow has one status, so the three sets are disjoint).
C11_OneConsistentSnapshot ==
    Built =>
        /\ inflight.result["stuck in running"] <= inflight.result["running"]
        /\ \E k \in 1..Len(seen) : CountsOfOneState(k)

\* C11 as the code has it: 'stuck in running' is at most 'running' in every
\* dict built, and 'running', 'finished' and 'queued' are each the count of
\* some state the datastore held during the call, the three states following
\* each other in the order of the queries but not being the same state;
\* they are the same state when no update fell between the queries.
C11_EachCountOfItsOwnState ==
    Built =>
        /\ inflight.result["stuck in running"] <= inflight.result["running"]
        /\ \E k1, k2, k3 \in 1..Len(seen) :
               /\ k1 <= k2
               /\ k2 <= k3
               /\ inflight.result["running"] = CountStatus(seen[k1], "running")
               /\ inflight.result["finished"] = CountStatus(seen[k2], "finished")
               /\ inflight.result["queued"] = CountStatus(seen[k3], "queued")
        /\ Len(seen) = 1 => CountsOfOneState(1)

\* A dict is built in which one workflow is counted as running and as
\* finished: an update fell between the two queries, and the three counts
\* belong to no single state of the datastore.
C11_Witness ==
    /\ Built
    /\ Len(seen) > 1
    /\ \A k \in 1..Len(seen) : ~CountsOfOneState(k)
    /\ inflight.result["running"] + inflight.result["finished"] > Len(workflows)
====
